---- MODULE Spec2Model ----
(***************************************************************************)
(* A model of src/env_mcp/server.py: the two core tools of EnvMCP,         *)
(*   read_error_file       (the bounded tail reader), and                  *)
(*   secure_shell_executor (the guarded command executor).                 *)
(*                                                                         *)
(* Texts are sequences of one-element tokens: a byte or a character is a   *)
(* short string, and the fixed pieces of the f-strings the tools return    *)
(* (the "[DRY RUN] Would execute: " prefix, ...) are single tokens, so the *)
(* text a tool returns is the concatenation the code builds.               *)
(***************************************************************************)
EXTENDS Integers, Sequences, FiniteSets, TLC

VARIABLES
    fs,      \* the entry at the one path the calls name: its kind and its bytes
    tail,    \* the read_error_file call in flight or just returned
    exec     \* the secure_shell_executor call in flight or just returned

vars == <<fs, tail, exec>>

\* ------------------------------------------------------------------ bounds

\* Longest file, in bytes, the sequential tail model builds.
MaxFileLen == 6
\* Largest max_lines a caller passes (the smallest is 1).
MaxLines == 3
\* Longest file, in bytes, of the model with a concurrent actor.
MaxRaceLen == 4
\* Longest command string, in characters.
MaxCmdLen == 3

\* ------------------------------------------------------- program constants

\* The two sizes of the tail reader are scaled down so that every file on
\* either side of the threshold can be enumerated byte by byte. The code uses
\* them only in "size < 1024 * 1024", in "read_size = max_lines * 200" and in
\* the comparisons of read_size with file_end, so what it does depends on how
\* the file size, the window and the threshold are ordered, and with
\* max_lines in 1..MaxLines the scaled window (2, 4, 6, ...) lies below, at
\* and above the scaled threshold, as max_lines * 200 does for max_lines
\* below, at and above 5243.

\* "size < 1024 * 1024" (1 MiB), scaled to 4 bytes.
SizeThreshold == 4
\* "read_size = max_lines * 200" (200 bytes per line), scaled to 2 bytes.
BytesPerLine == 2
\* "timeout=30": seconds subprocess.run waits for the child.
TimeoutSecs == 30

Max(a, b) == IF a >= b THEN a ELSE b
Min(a, b) == IF a <= b THEN a ELSE b

\* ------------------------------------------------------------------- text

\* The bytes a file is made of: an ASCII letter, the line feed, the carriage
\* return, and the two bytes C2 85 of the UTF-8 encoding of U+0085 (NEL), each
\* of which is an invalid sequence when it stands alone.
Bytes == {"a", "LF", "CR", "xC2", "x85"}

\* bytes.decode('utf-8', errors='replace'): a valid sequence gives its
\* character, every byte of an invalid one gives U+FFFD.
RECURSIVE DecodeFrom(_, _)
DecodeFrom(b, i) ==
    IF i > Len(b) THEN <<>>
    ELSE IF b[i] = "xC2"
         THEN IF i < Len(b) /\ b[i + 1] = "x85"
              THEN <<"NEL">> \o DecodeFrom(b, i + 2)
              ELSE <<"FFFD">> \o DecodeFrom(b, i + 1)
    ELSE IF b[i] = "x85" THEN <<"FFFD">> \o DecodeFrom(b, i + 1)
    ELSE <<b[i]>> \o DecodeFrom(b, i + 1)

Decode(b) == DecodeFrom(b, 1)

\* The characters str.splitlines() breaks a line at.
LineBreaks == {"LF", "CR", "NEL"}

\* str.splitlines(): the lines without their line breaks; CR LF is one line
\* break, and a text that ends with a line break has no empty last line.
RECURSIVE SplitFrom(_, _, _)
SplitFrom(s, i, cur) ==
    IF i > Len(s) THEN (IF cur = <<>> THEN <<>> ELSE <<cur>>)
    ELSE IF s[i] = "CR" /\ i < Len(s) /\ s[i + 1] = "LF"
         THEN <<cur>> \o SplitFrom(s, i + 2, <<>>)
    ELSE IF s[i] \in LineBreaks THEN <<cur>> \o SplitFrom(s, i + 1, <<>>)
    ELSE SplitFrom(s, i + 1, Append(cur, s[i]))

SplitLines(s) == SplitFrom(s, 1, <<>>)

\* "\n".join(lines)
RECURSIVE Join(_)
Join(lines) ==
    IF lines = <<>> THEN <<>>
    ELSE IF Len(lines) = 1 THEN lines[1]
    ELSE lines[1] \o <<"LF">> \o Join(Tail(lines))

\* A mutant of LastLines: the first n lines instead of the last.
FirstLines(lines, n) == SubSeq(lines, 1, Min(n, Len(lines)))

\* lines[-n:] for n >= 1: the last n lines, all of them when there are fewer.
LastLines(lines, n) == SubSeq(lines, Max(1, Len(lines) - n + 1), Len(lines))

\* lines[1:]
DropFirst(lines) == SubSeq(lines, 2, Len(lines))

\* ------------------------------------------------------- read_error_file

\* The path every call names (file_path after os.path.expanduser).
ThePath == "/tmp/error.log"

Absent == [kind |-> "absent", data |-> <<>>]
Directory == [kind |-> "dir", data |-> <<>>]
RegularFile(d) == [kind |-> "file", data |-> d]

\* The texts the tool returns for its three failures.
NotFoundText == <<"Error: Log file not found at ", ThePath>>
NotAFileText == <<"Error: Path ", ThePath, " is not a file.">>
ReadErrorText(e) == <<"Failed to read file: ", e>>

\* The result variant a returned text stands for.
TailVariant(text) ==
    IF text = <<>> THEN "Lines"
    ELSE IF text[1] = NotFoundText[1] THEN "NotFound"
    ELSE IF text[1] = NotAFileText[1] THEN "NotAFile"
    ELSE IF text[1] = ReadErrorText("")[1] THEN "ReadError"
    ELSE "Lines"

\* os.path.exists(file_path)
PathExists(e) == e.kind # "absent"

\* A mutant of IsFile: any existing path passes for a file.
IsFileAnyKind(e) == e.kind # "absent"

\* os.path.isfile(file_path): false, never an exception, for a missing path.
IsFile(e) == e.kind = "file"

\* A mutant of ReadsWhole: the size test is dropped, every file is read whole.
ReadsWholeAlways(size) == TRUE

\* "if size < 1024 * 1024": the file is read fully.
ReadsWhole(size) == size < SizeThreshold

\* "read_size = max_lines * 200"
ReadSize(max_lines) == max_lines * BytesPerLine

\* "f.seek(max(0, file_end - read_size))": the offset the read starts at.
SeekPos(file_end, read_size) == Max(0, file_end - read_size)

\* A mutant of DropsFirst: the first line of the window is always kept.
DropsFirstNever(file_end, read_size, n) == FALSE

\* "if file_end > read_size and len(lines) > 0": the first line is dropped.
DropsFirst(file_end, read_size, n) == file_end > read_size /\ n > 0

\* The branch for a small file: what f.read() took, and the text returned.
ReadSmall(data, max_lines) ==
    LET content == Decode(data)
        lines == SplitLines(content)
    IN  [bytes |-> Len(data),
         text |-> IF Len(lines) > max_lines
                  THEN Join(LastLines(lines, max_lines))
                  ELSE content]

\* The branch for a large file: seek back by the window, read to the end.
ReadLarge(data, max_lines) ==
    LET read_size == ReadSize(max_lines)
        file_end == Len(data)
        pos == SeekPos(file_end, read_size)
        window == SubSeq(data, pos + 1, file_end)
        lines == SplitLines(Decode(window))
        kept == IF DropsFirst(file_end, read_size, Len(lines))
                THEN DropFirst(lines) ELSE lines
    IN  [bytes |-> Len(window),
         text |-> Join(LastLines(kept, max_lines))]

\* The body of "with open(...)": size is what os.path.getsize returned, data
\* the bytes of the open file.
ReadTail(size, data, max_lines) ==
    IF ReadsWhole(size) THEN ReadSmall(data, max_lines)
    ELSE ReadLarge(data, max_lines)

\* The call record: pc names the step the handler runs next; result is the text
\* returned and raised the exception that left the handler, if one did. seen
\* and interfered are history: the kind of entry each check met, and whether
\* another actor removed or replaced the path after the existence check.
NoHandle == [open |-> FALSE, linked |-> FALSE, data |-> <<>>]
NothingSeen == [isfile |-> "-", getsize |-> "-", open |-> "-"]
IdleTail ==
    [pc |-> "idle", max_lines |-> 0, size |-> 0, handle |-> NoHandle,
     result |-> <<>>, returned |-> FALSE, raised |-> "none",
     opened |-> FALSE, bytesRead |-> 0,
     seen |-> NothingSeen, interfered |-> FALSE]

\* A mutant of InTry: the try block starts only at "with open(...)".
InTryFromOpen(step) == step \in {"open", "read"}

\* The steps inside "try: ... except Exception" (lines 122 to 155); the
\* existence check of line 119 stands before it.
InTry(step) == step \in {"isfile", "getsize", "open", "read"}

\* "return <text>"
TailReturn(c, text) ==
    [c EXCEPT !.pc = "done", !.result = text, !.returned = TRUE]

\* An exception e raised at a step: inside the try block it is turned into the
\* "Failed to read file" text, outside it leaves the handler.
TailRaise(c, step, e) ==
    IF InTry(step) THEN TailReturn(c, ReadErrorText(e))
    ELSE [c EXCEPT !.pc = "done", !.raised = e]

\* Line 119: "if not os.path.exists(file_path): return ..."
StepExists(c, e) ==
    IF ~PathExists(e) THEN TailReturn(c, NotFoundText)
    ELSE [c EXCEPT !.pc = "isfile"]

\* Line 123: "if not os.path.isfile(file_path): return ..."
StepIsFile(c, e) ==
    LET d == [c EXCEPT !.seen.isfile = e.kind]
    IN  IF ~IsFile(e) THEN TailReturn(d, NotAFileText)
        ELSE [d EXCEPT !.pc = "getsize"]

\* Line 126: "size = os.path.getsize(file_path)"; dirsize is what the host
\* reports for a directory.
StepGetSize(c, e, dirsize) ==
    LET d == [c EXCEPT !.seen.getsize = e.kind]
    IN  IF e.kind = "absent" THEN TailRaise(d, "getsize", "FileNotFoundError")
        ELSE [d EXCEPT !.pc = "open",
                       !.size = IF e.kind = "file" THEN Len(e.data) ELSE dirsize]

\* Line 128: "with open(file_path, "rb") as f"; denied is the host refusing
\* the read permission.
StepOpen(c, e, denied) ==
    LET d == [c EXCEPT !.seen.open = e.kind]
    IN  IF e.kind = "absent" THEN TailRaise(d, "open", "FileNotFoundError")
        ELSE IF e.kind = "dir" THEN TailRaise(d, "open", "IsADirectoryError")
        ELSE IF denied THEN TailRaise(d, "open", "PermissionError")
        ELSE [d EXCEPT !.pc = "read", !.opened = TRUE,
                       !.handle = [open |-> TRUE, linked |-> TRUE,
                                   data |-> e.data]]

\* Lines 130 to 152: the reads of the open file and the text returned; the
\* file is closed on the way out and its bytes are kept as history.
StepRead(c) ==
    LET r == ReadTail(c.size, c.handle.data, c.max_lines)
    IN  TailReturn([c EXCEPT !.bytesRead = r.bytes, !.handle.open = FALSE],
                   r.text)

\* read_error_file(file_path, max_lines) run from its first line to its
\* return against an entry no other actor touches meanwhile.
RunTail(e, max_lines, dirsize, denied) ==
    LET c0 == [IdleTail EXCEPT !.pc = "exists", !.max_lines = max_lines]
        c1 == StepExists(c0, e)
        c2 == IF c1.pc = "isfile" THEN StepIsFile(c1, e) ELSE c1
        c3 == IF c2.pc = "getsize" THEN StepGetSize(c2, e, dirsize) ELSE c2
        c4 == IF c3.pc = "open" THEN StepOpen(c3, e, denied) ELSE c3
    IN  IF c4.pc = "read" THEN StepRead(c4) ELSE c4

\* The sizes a host may report for a directory: below and at the threshold.
DirSizes == {0, SizeThreshold}

\* ---------------------------------------------- the host's file system

\* Another process creates the (empty) file.
CreateFile ==
    /\ fs.kind = "absent"
    /\ fs' = RegularFile(<<>>)

\* Another process appends a byte b to the file; the open file of a call in
\* flight sees it as long as the path still names it.
AppendByte(b, bound) ==
    /\ fs.kind = "file"
    /\ Len(fs.data) < bound
    /\ fs' = RegularFile(Append(fs.data, b))

\* Another process removes the file or the directory.
RemovePath ==
    /\ fs.kind # "absent"
    /\ fs' = Absent

\* Another process makes a directory at the path.
MakeDir ==
    /\ fs.kind = "absent"
    /\ fs' = Directory

\* --------------------------------- the tail reader, one caller at a time

InitTail ==
    /\ fs = Absent
    /\ tail = IdleTail
    /\ exec = "unused"

HostFile ==
    /\ tail.pc = "idle"
    /\ \/ CreateFile
       \/ \E b \in Bytes : AppendByte(b, MaxFileLen)
       \/ RemovePath
       \/ MakeDir
    /\ UNCHANGED <<tail, exec>>

\* A caller invokes read_error_file(ThePath, max_lines).
ReadErrorFile ==
    /\ tail.pc = "idle"
    /\ \E k \in 1..MaxLines, dirsize \in DirSizes, denied \in BOOLEAN :
           tail' = RunTail(fs, k, dirsize, denied)
    /\ UNCHANGED <<fs, exec>>

\* The caller has taken the result.
TailDone ==
    /\ tail.pc = "done"
    /\ tail' = IdleTail
    /\ UNCHANGED <<fs, exec>>

NextTail == HostFile \/ ReadErrorFile \/ TailDone

SpecTail == InitTail /\ [][NextTail]_vars

\* ------------------------- the tail reader beside another actor

\* The bytes the other actor writes in this model.
RaceBytes == {"a", "LF"}

\* The call is past its existence check and has not finished its read.
PastExistsCheck == tail.pc \in {"isfile", "getsize", "open", "read"}

\* The other actor acts at any moment, between any two steps of a call. An
\* open file follows the appends to the file it was opened on and survives
\* the removal of its path.
HostRace ==
    /\ \/ /\ CreateFile
          /\ tail' = tail
       \/ /\ \E b \in RaceBytes : AppendByte(b, MaxRaceLen)
          /\ tail' = IF tail.handle.open /\ tail.handle.linked
                     THEN [tail EXCEPT !.handle.data = fs'.data]
                     ELSE tail
       \/ /\ RemovePath
          /\ tail' = [tail EXCEPT !.handle.linked = FALSE,
                                  !.interfered = @ \/ PastExistsCheck]
       \/ /\ MakeDir
          /\ tail' = [tail EXCEPT !.interfered = @ \/ PastExistsCheck]
    /\ UNCHANGED exec

\* A caller invokes read_error_file(ThePath, max_lines).
CallTail ==
    /\ tail.pc = "idle"
    /\ \E k \in 1..MaxLines :
           tail' = [IdleTail EXCEPT !.pc = "exists", !.max_lines = k]
    /\ UNCHANGED <<fs, exec>>

DoExists ==
    /\ tail.pc = "exists"
    /\ tail' = StepExists(tail, fs)
    /\ UNCHANGED <<fs, exec>>

DoIsFile ==
    /\ tail.pc = "isfile"
    /\ tail' = StepIsFile(tail, fs)
    /\ UNCHANGED <<fs, exec>>

DoGetSize ==
    /\ tail.pc = "getsize"
    /\ \E dirsize \in DirSizes : tail' = StepGetSize(tail, fs, dirsize)
    /\ UNCHANGED <<fs, exec>>

DoOpen ==
    /\ tail.pc = "open"
    /\ \E denied \in BOOLEAN : tail' = StepOpen(tail, fs, denied)
    /\ UNCHANGED <<fs, exec>>

DoRead ==
    /\ tail.pc = "read"
    /\ tail' = StepRead(tail)
    /\ UNCHANGED <<fs, exec>>

NextRace ==
    HostRace \/ CallTail \/ DoExists \/ DoIsFile \/ DoGetSize \/ DoOpen
        \/ DoRead \/ TailDone

SpecRace == InitTail /\ [][NextRace]_vars

\* ------------------------------------------------- secure_shell_executor

\* The characters a command is made of: a letter, the blank, and the
\* characters the denylist is about ("backtick" stands for the grave accent).
CmdChars == {"e", " ", ";", "&", "|", ">", "<", "backtick", "$", "("}

\* Every command string of at most MaxCmdLen characters, the empty one too.
Commands == UNION {[1..n -> CmdChars] : n \in 0..MaxCmdLen}

\* "forbidden = [...]" of line 97.
Forbidden ==
    {<<";">>, <<"&", "&">>, <<"|", "|">>, <<"|">>, <<">">>, <<"<">>, <<"backtick">>,
     <<"$", "(">>}

\* "pat in command": pat occurs in command as a substring.
Contains(pat, command) ==
    \E i \in 1..(Len(command) - Len(pat) + 1) :
        SubSeq(command, i, i + Len(pat) - 1) = pat

\* "any(char in command for char in forbidden)"
IsBlocked(command) == \E pat \in Forbidden : Contains(pat, command)

\* command.split(): the maximal runs of non-blank characters.
RECURSIVE SplitWords(_, _, _)
SplitWords(s, i, cur) ==
    IF i > Len(s) THEN (IF cur = <<>> THEN <<>> ELSE <<cur>>)
    ELSE IF s[i] = " "
         THEN (IF cur = <<>> THEN <<>> ELSE <<cur>>) \o SplitWords(s, i + 1, <<>>)
    ELSE SplitWords(s, i + 1, Append(cur, s[i]))

Split(command) == SplitWords(command, 1, <<>>)

\* The texts the tool returns.
DryRunText(command) == <<"[DRY RUN] Would execute: ">> \o command
BlockedText(command) ==
    <<"Command blocked due to detected shell metacharacters: ">> \o command
SuccessText(stdout) == <<"Success:\n">> \o stdout
FailureText(code, stderr) ==
    <<"Failure (Exit Code ", ToString(code), "):\n">> \o stderr
ExecErrorText(e) == <<"Error executing command: ", e>>

\* The result variant a returned text stands for.
ExecVariant(text) ==
    IF text = <<>> THEN "none"
    ELSE IF text[1] = DryRunText(<<>>)[1] THEN "DryRunPreview"
    ELSE IF text[1] = BlockedText(<<>>)[1] THEN "Blocked"
    ELSE IF text[1] = SuccessText(<<>>)[1] THEN "Success"
    ELSE IF text[1] = FailureText(0, <<>>)[1] THEN "Failure"
    ELSE IF text[1] = ExecErrorText("")[1] THEN "ExecutionError"
    ELSE "none"

\* What a child may leave behind: its exit code, what it wrote to its two
\* pipes, and whether those bytes decode in the locale's encoding
\* (text=True decodes strictly).
ExitCodes == {0, 1, 2}
Outputs == {<<>>, <<"o">>}
NoOutcome == [code |-> 0, stdout |-> <<>>, stderr |-> <<>>, decodable |-> TRUE]

\* The call record: pc is "idle", "waiting" (blocked in subprocess.run on a
\* running child) or "done". validated, spawned, failure and outcome are
\* history: whether the denylist was consulted, how many processes the call
\* started, the exception subprocess.run raised, and what the child left.
IdleExec ==
    [pc |-> "idle", command |-> <<>>, dry_run |-> TRUE,
     validated |-> FALSE, spawned |-> 0, child |-> "none", elapsed |-> 0,
     failure |-> "none", outcome |-> NoOutcome,
     result |-> <<>>, returns |-> 0, raised |-> "none"]

\* A mutant of Previews: the preview is given only for a command that would
\* pass the denylist.
PreviewsIfClean(command, dry_run) == dry_run /\ ~IsBlocked(command)

\* Line 92: "if dry_run:" the call only previews the command.
Previews(command, dry_run) == dry_run

\* A mutant of ExecCatches: the handler catches the timeout alone.
ExecCatchesTimeoutOnly(e) == e = "TimeoutExpired"

\* Line 108: "except Exception as e" catches every exception of the try block.
ExecCatches(e) == TRUE

\* A mutant of TimerExpired: subprocess.run is called without a timeout.
TimerNever(elapsed) == FALSE

\* "timeout=30" of line 103: the wait for the child is over.
TimerExpired(elapsed) == elapsed >= TimeoutSecs

\* "return <text>"
ExecReturn(c, text) ==
    [c EXCEPT !.pc = "done", !.result = text, !.returns = @ + 1]

\* An exception e raised inside the try block (lines 95 to 109).
ExecRaise(c, e) ==
    LET d == [c EXCEPT !.failure = e]
    IN  IF ExecCatches(e) THEN ExecReturn(d, ExecErrorText(e))
        ELSE [d EXCEPT !.pc = "done", !.raised = e]

\* Lines 104 to 107, once subprocess.run has the child's exit code and its
\* decoded output; undecodable output has subprocess.run raise instead.
Classify(c, o) ==
    LET d == [c EXCEPT !.child = "exited", !.outcome = o]
    IN  IF ~o.decodable THEN ExecRaise(d, "UnicodeDecodeError")
        ELSE IF o.code = 0 THEN ExecReturn(d, SuccessText(o.stdout))
        ELSE ExecReturn(d, FailureText(o.code, o.stderr))

\* The exceptions with which the host refuses to start the executable.
SpawnFailures == {"FileNotFoundError", "PermissionError"}

\* secure_shell_executor(command, dry_run) from its first line to its return
\* or to the point where subprocess.run waits for the child it started.
\* spawn is the host's answer to starting the executable: "ok" or a failure.
StartExec(command, dry_run, spawn) ==
    LET c == [IdleExec EXCEPT !.command = command, !.dry_run = dry_run]
        v == [c EXCEPT !.validated = TRUE]
    IN  IF Previews(command, dry_run) THEN ExecReturn(c, DryRunText(command))
        ELSE IF IsBlocked(command) THEN ExecReturn(v, BlockedText(command))
        ELSE IF Split(command) = <<>> THEN ExecRaise(v, "IndexError")
        ELSE IF spawn # "ok" THEN ExecRaise(v, spawn)
        ELSE [v EXCEPT !.pc = "waiting", !.spawned = @ + 1,
                       !.child = "running"]

InitExec ==
    /\ fs = Absent
    /\ tail = IdleTail
    /\ exec = IdleExec

\* A caller invokes secure_shell_executor(command, dry_run).
Execute ==
    /\ exec.pc = "idle"
    /\ \E command \in Commands, dry_run \in BOOLEAN,
          spawn \in {"ok"} \cup SpawnFailures :
           exec' = StartExec(command, dry_run, spawn)
    /\ UNCHANGED <<fs, tail>>

\* A second passes while subprocess.run waits for the child.
Tick ==
    /\ exec.pc = "waiting"
    /\ ~TimerExpired(exec.elapsed)
    /\ exec.elapsed < TimeoutSecs
    /\ exec' = [exec EXCEPT !.elapsed = @ + 1]
    /\ UNCHANGED <<fs, tail>>

\* The child exits on its own and subprocess.run returns what it left.
ChildExits ==
    /\ exec.pc = "waiting"
    /\ exec.child = "running"
    /\ \E code \in ExitCodes, out \in Outputs, err \in Outputs,
          ok \in BOOLEAN :
           exec' = Classify(exec, [code |-> code, stdout |-> out,
                                   stderr |-> err, decodable |-> ok])
    /\ UNCHANGED <<fs, tail>>

\* The timeout expires on a child that still runs: subprocess.run kills it,
\* reaps it and raises TimeoutExpired.
TimeoutExpires ==
    /\ exec.pc = "waiting"
    /\ exec.child = "running"
    /\ TimerExpired(exec.elapsed)
    /\ exec' = ExecRaise([exec EXCEPT !.child = "killed"], "TimeoutExpired")
    /\ UNCHANGED <<fs, tail>>

\* The caller has taken the result.
ExecDone ==
    /\ exec.pc = "done"
    /\ exec' = IdleExec
    /\ UNCHANGED <<fs, tail>>

NextExec == Execute \/ Tick \/ ChildExits \/ TimeoutExpires \/ ExecDone

SpecExec == InitExec /\ [][NextExec]_vars

\* The clock runs and an expired timeout is acted upon; nothing makes a child
\* exit or a caller call.
SpecExecLive ==
    InitExec /\ [][NextExec]_vars /\ WF_vars(Tick) /\ WF_vars(TimeoutExpires)

\* --------------------------------------------------------------- claims

\* The lines of the file at the path, as the reader counts them.
FileLines == SplitLines(Decode(fs.data))

\* A call has returned from reading the regular file at the path.
TailReadFile == tail.pc = "done" /\ fs.kind = "file" /\ tail.opened

\* C3: for a regular file below the size threshold holding N lines and any
\* max_lines >= 1, the text returned is the last max_lines lines joined by
\* line feeds when max_lines < N, and holds exactly the N lines of the file,
\* none added, when N <= max_lines.
C3_SmallFileTail ==
    (TailReadFile /\ Len(fs.data) < SizeThreshold) =>
        LET N == Len(FileLines)
            k == tail.max_lines
        IN  /\ N > k => tail.result = Join(SubSeq(FileLines, N - k + 1, N))
            /\ N <= k => SplitLines(tail.result) = FileLines

\* C3's case: a small file of three lines, the last one not empty, read with
\* max_lines = 2.
C3_Witness ==
    /\ TailReadFile
    /\ Len(fs.data) < SizeThreshold
    /\ Len(FileLines) = 3
    /\ tail.max_lines = 2
    /\ FileLines[3] # <<>>

\* C4: for a regular file at or above the size threshold and any
\* max_lines >= 1, the text returned is at most max_lines lines, and they are
\* the last lines of the file, in order, joined by line feeds.
C4_LargeFileSuffix ==
    (TailReadFile /\ Len(fs.data) >= SizeThreshold) =>
        LET N == Len(FileLines)
        IN  \E n \in 0..Min(N, tail.max_lines) :
                tail.result = Join(SubSeq(FileLines, N - n + 1, N))

\* C4's case: the seek point of a large file falls between two letters of a
\* line, and lines are returned.
C4_Witness ==
    /\ TailReadFile
    /\ Len(fs.data) >= SizeThreshold
    /\ LET pos == SeekPos(Len(fs.data), ReadSize(tail.max_lines))
       IN  /\ pos > 0
           /\ fs.data[pos] = "a"
           /\ fs.data[pos + 1] = "a"
    /\ tail.result # <<>>

\* C7: a call on a path that does not exist returns NotFound and one on a
\* directory returns NotAFile; neither opens the path or reads a byte.
C7_NotFoundNotAFile ==
    (tail.pc = "done" /\ fs.kind # "file") =>
        /\ fs.kind = "absent" => tail.result = NotFoundText
        /\ fs.kind = "dir" => tail.result = NotAFileText
        /\ tail.returned
        /\ ~tail.opened
        /\ tail.bytesRead = 0

\* C7's case: a call on a directory has returned.
C7_Witness ==
    /\ tail.pc = "done"
    /\ fs.kind = "dir"
    /\ TailVariant(tail.result) = "NotAFile"

ListedDenylist ==
    {<<";">>, <<"&">>, <<"|">>, <<">">>, <<"<">>, <<"backtick">>, <<"$", "(">>}

\* C1: for every command string, one with denylisted content too, a call with
\* dry_run = true returns the DryRunPreview text, which holds the command as
\* given; the denylist is not consulted and no process is started.
C1_DryRunPreview ==
    (exec.pc = "done" /\ exec.dry_run) =>
        /\ ExecVariant(exec.result) = "DryRunPreview"
        /\ exec.result = DryRunText(exec.command)
        /\ Contains(exec.command, exec.result)
        /\ ~exec.validated
        /\ exec.spawned = 0
        /\ exec.child = "none"

\* C1's case: a dry run of a command that holds a denylisted pattern.
C1_Witness ==
    /\ exec.pc = "done"
    /\ exec.dry_run
    /\ IsBlocked(exec.command)
    /\ Contains(<<";">>, exec.command)

\* C2: in a call with dry_run = false, a command that holds any character of
\* the listed denylist  ; & | > < backtick $(  is answered with Blocked and
\* no process is started.
C2_ListedDenylistBlocks ==
    (exec.pc # "idle" /\ ~exec.dry_run
       /\ \E pat \in ListedDenylist : Contains(pat, exec.command)) =>
        /\ exec.pc = "done"
        /\ ExecVariant(exec.result) = "Blocked"
        /\ exec.spawned = 0

\* C5: in a call with dry_run = false whose command passes validation (it
\* holds nothing of the code's list nor of the listed denylist), the
\* child's outcome decides the variant: exit code 0 gives Success with the
\* captured stdout, another exit code gives Failure with that code and the
\* captured stderr, an expired timeout and a failed spawn give ExecutionError.
C5_OutcomeDecidesVariant ==
    (exec.pc = "done" /\ ~exec.dry_run /\ ~IsBlocked(exec.command)
       /\ ~\E pat \in ListedDenylist : Contains(pat, exec.command)) =>
        /\ (exec.child = "exited" /\ exec.outcome.code = 0)
              => exec.result = SuccessText(exec.outcome.stdout)
        /\ (exec.child = "exited" /\ exec.outcome.code # 0)
              => exec.result = FailureText(exec.outcome.code,
                                           exec.outcome.stderr)
        /\ exec.child = "killed"
              => ExecVariant(exec.result) = "ExecutionError"
        /\ exec.child = "none"
              => ExecVariant(exec.result) = "ExecutionError"

\* C6: a call that waits for a child always returns: when the timeout expires
\* on a child that still runs, the child is killed and the call returns
\* ExecutionError; the wait never lasts longer than the timeout.
C6_CallReturns ==
    /\ (exec.pc = "waiting") ~> (exec.pc = "done" /\ exec.returns = 1)
    /\ [](exec.pc = "waiting" => exec.elapsed <= TimeoutSecs)
    /\ []((exec.pc = "done" /\ exec.failure = "TimeoutExpired") =>
            /\ exec.child = "killed"
            /\ exec.elapsed = TimeoutSecs
            /\ ExecVariant(exec.result) = "ExecutionError")

\* C6's case: a call has returned after the timeout expired on its child.
C6_Witness ==
    /\ exec.pc = "done"
    /\ exec.failure = "TimeoutExpired"
    /\ exec.child = "killed"

\* The five result variants of the executor.
ExecVariants ==
    {"DryRunPreview", "Blocked", "Success", "Failure", "ExecutionError"}

\* C8: every call, for every command string and either dry_run value, returns
\* once, with a text of one of the five variants, and no exception leaves the
\* handler; before it returns it has produced no result.
C8_OneResult ==
    /\ exec.pc = "done" =>
          /\ exec.returns = 1
          /\ exec.raised = "none"
          /\ ExecVariant(exec.result) \in ExecVariants
    /\ exec.pc # "done" => (exec.returns = 0 /\ exec.result = <<>>)

\* C8's case: a call with dry_run = false on a command of blanks only, which
\* subprocess.run refuses with an exception.
C8_Witness ==
    /\ exec.pc = "done"
    /\ ~exec.dry_run
    /\ exec.command = <<" ", " ">>
    /\ exec.failure = "IndexError"

\* The variants with which a tail call reports a failure.
TailFailures == {"NotFound", "NotAFile", "ReadError"}

\* C10 as stated: a call during which the path was removed or replaced by a
\* directory, after the existence check and before the type check, the size
\* query, the open or the read, returns NotFound, NotAFile or ReadError, and
\* no exception leaves the handler.
C10_InterferenceFailsCall ==
    (tail.pc = "done" /\ tail.interfered) =>
        /\ tail.raised = "none"
        /\ tail.returned
        /\ TailVariant(tail.result) \in TailFailures

\* C10 amended: every call returns a text and no exception leaves the
\* handler, whatever the other actor does between its steps. A path that is
\* missing or no regular file at the type check gives NotAFile; one missing at
\* the size query, or missing or a directory at the open, gives ReadError; and
\* once the file is open, removing or replacing its path does not fail the
\* call, which returns the tail of the file it opened.
C10_AlwaysTextResult ==
    tail.pc = "done" =>
        /\ tail.raised = "none"
        /\ tail.returned
        /\ tail.seen.isfile \in {"absent", "dir"}
              => tail.result = NotAFileText
        /\ tail.seen.getsize = "absent"
              => TailVariant(tail.result) = "ReadError"
        /\ tail.seen.open \in {"absent", "dir"}
              => TailVariant(tail.result) = "ReadError"
        /\ tail.opened
              => tail.result =
                     ReadTail(tail.size, tail.handle.data, tail.max_lines).text

\* C10's case: the path was removed between the type check and the size query
\* of a call, which has returned.
C10_Witness ==
    /\ tail.pc = "done"
    /\ tail.interfered
    /\ tail.seen.isfile = "file"
    /\ tail.seen.getsize = "absent"

====
